---------------------------- MODULE Spec2Model ----------------------------
(***************************************************************************)
(* A model of package cmd (src/cmd/cmd.go): the bootstrap layer that turns *)
(* command-line flags into the process-wide default broker, registry,      *)
(* selector, transport, server and client.                                 *)
(*                                                                         *)
(* Strings whose characters matter (flag values) are sequences of          *)
(* one-character strings, so that strings.Split and strings.Join are       *)
(* computed rather than assumed.  Names that are only compared as a whole   *)
(* (flag names, factory names, program positions) are TLA+ strings.        *)
(***************************************************************************)
EXTENDS Integers, Sequences, FiniteSets, TLC

VARIABLES
    pc,               \* position of the process in the Command lifecycle
    step,             \* index of the next sub-step of Before (within BeforeOrder)
    cmdline,          \* the command line the process was started with (never changes)
    newOpts,          \* the option functions main passes to NewCmd
    initOpts,         \* the option functions main passes to Init
    osArgs,           \* os.Args, the process argument list (a mutable global)
    opts,             \* cmd.opts, the Option Set
    app,              \* cmd.app, the display fields of the cli shell
    ctx,              \* the parsed flag values (*cli.Context)
    glogFlags,        \* the flag store of the standard flag package (glog's flags)
    DefaultBroker,    \* broker.DefaultBroker
    DefaultRegistry,  \* registry.DefaultRegistry
    DefaultSelector,  \* selector.DefaultSelector
    DefaultTransport, \* transport.DefaultTransport
    DefaultServer,    \* server.DefaultServer
    DefaultClient,    \* client.DefaultClient
    metadata,         \* the local map built by Before
    hookErr,          \* the value Before returned
    exitStatus,       \* the status the process exited with (-1 while it lives)
    trace             \* history: the sub-steps carried out, with their calls and writes

vars == <<pc, step, cmdline, newOpts, initOpts, osArgs, opts, app, ctx, glogFlags,
          DefaultBroker, DefaultRegistry, DefaultSelector, DefaultTransport,
          DefaultServer, DefaultClient, metadata, hookErr, exitStatus, trace>>

slots == <<DefaultBroker, DefaultRegistry, DefaultSelector, DefaultTransport,
           DefaultServer, DefaultClient>>

---------------------------------------------------------------------------
(* Bounds of the model *)

\* longest command line (number of flags) of the lifecycle specification
MaxArgs == 2
\* longest address flag value, in characters
MaxAddrLen == 3
\* longest server_metadata token, in characters
MaxTokLen == 3
\* largest number of server_metadata tokens on a command line
MaxTokens == 2

---------------------------------------------------------------------------
(* Strings *)

EMPTY    == << >>
HTTP     == <<"h", "t", "t", "p">>
CONSUL   == <<"c", "o", "n", "s", "u", "l">>
SELECTOR == <<"s", "e", "l", "e", "c", "t", "o", "r">>
RANDOM   == <<"r", "a", "n", "d", "o", "m">>
KAFKA    == <<"k", "a", "f", "k", "a">>
ETCD     == <<"e", "t", "c", "d">>
NATS     == <<"n", "a", "t", "s">>
COLON0   == <<":", "0">>
STRTRUE  == <<"t", "r", "u", "e">>
STRFALSE == <<"f", "a", "l", "s", "e">>
SVC      == <<"s", "v", "c">>

\* every string over the alphabet A of length at most n
Strings(A, n) == UNION {[1..k -> A] : k \in 0..n}

\* every sequence over the set S of length at most n
SeqsUpTo(S, n) == UNION {[1..k -> S] : k \in 0..n}

\* strings.Index(s, c) for a one-character c, 1-based; 0 when c is not in s
Index(s, c) ==
    IF \E i \in 1..Len(s) : s[i] = c
    THEN CHOOSE i \in 1..Len(s) : s[i] = c /\ \A j \in 1..(i - 1) : s[j] # c
    ELSE 0

\* strings.Count(s, c) for a one-character c
Count(s, c) == Cardinality({i \in 1..Len(s) : s[i] = c})

\* a plausible slip: strings.Fields-like splitting, which drops empty elements
RECURSIVE SplitDropEmpty(_, _)
SplitDropEmpty(s, c) ==
    LET m == Index(s, c) IN
    IF m = 0 THEN (IF s = EMPTY THEN << >> ELSE <<s>>)
    ELSE (IF m = 1 THEN << >> ELSE <<SubSeq(s, 1, m - 1)>>)
         \o SplitDropEmpty(SubSeq(s, m + 1, Len(s)), c)

\* strings.Split(s, c) for a one-character separator c: cut at every c, keeping
\* empty pieces; the piece after the last c is the last element
RECURSIVE Split(_, _)
Split(s, c) ==
    LET m == Index(s, c) IN
    IF m = 0 THEN <<s>>
    ELSE <<SubSeq(s, 1, m - 1)>> \o Split(SubSeq(s, m + 1, Len(s)), c)

\* strings.Join(a, c): the elements of a with c between neighbours
RECURSIVE Join(_, _)
Join(a, c) ==
    IF Len(a) = 0 THEN EMPTY
    ELSE IF Len(a) = 1 THEN a[1]
    ELSE a[1] \o <<c>> \o Join(Tail(a), c)

\* fmt.Sprintf("%v", b) for a bool
FormatBool(b) == IF b THEN STRTRUE ELSE STRFALSE

---------------------------------------------------------------------------
(* The Flag Surface: DefaultFlags *)

StringFlagNames ==
    {"server_name", "server_version", "server_id", "server_address",
     "server_advertise", "broker", "broker_address", "registry",
     "registry_address", "selector", "transport", "transport_address",
     "log_dir", "stderrthreshold", "v", "vmodule", "log_backtrace_at"}

BoolFlagNames == {"logtostderr", "alsologtostderr"}

SliceFlagNames == {"server_metadata"}

DeclaredFlagNames == StringFlagNames \cup BoolFlagNames \cup SliceFlagNames

\* the flags the standard flag package knows (glog's), set by Before
GlogFlagNames ==
    {"logtostderr", "alsologtostderr", "stderrthreshold", "log_backtrace_at",
     "log_dir", "vmodule", "v"}

\* the Value of each StringFlag of DefaultFlags (the empty string when none is given)
DefaultFlags ==
    [n \in StringFlagNames |->
        CASE n = "server_address" -> COLON0
          [] n = "broker"         -> HTTP
          [] n = "registry"       -> CONSUL
          [] n = "selector"       -> SELECTOR
          [] n = "transport"      -> HTTP
          [] OTHER                -> EMPTY]

---------------------------------------------------------------------------
(* The built-in factory registries *)

DefaultBrokers    == HTTP   :> "broker.NewBroker"
DefaultRegistries == CONSUL :> "registry.NewRegistry"
DefaultSelectors  == RANDOM :> "selector.NewSelector"
DefaultTransports == HTTP   :> "transport.NewTransport"

NoMap == << >>

---------------------------------------------------------------------------
(* Option functions (type Option func(o *Options)) *)

\* an option function, as the field it assigns and the value it assigns
Name(n)        == [field |-> "Name",        str |-> n,  map |-> NoMap]
Version(v)     == [field |-> "Version",     str |-> v,  map |-> NoMap]
Description(d) == [field |-> "Description", str |-> d,  map |-> NoMap]
Brokers(m)     == [field |-> "Brokers",     str |-> "", map |-> m]
Registries(m)  == [field |-> "Registries",  str |-> "", map |-> m]
Selectors(m)   == [field |-> "Selectors",   str |-> "", map |-> m]
Transports(m)  == [field |-> "Transports",  str |-> "", map |-> m]

\* o(&options) for one option function
ApplyOption(options, o) ==
    IF o.field \in {"Name", "Version", "Description"}
    THEN [options EXCEPT ![o.field] = o.str]
    ELSE [options EXCEPT ![o.field] = o.map]

\* for _, o := range opts { o(&options) }
RECURSIVE ApplyOptions(_, _)
ApplyOptions(options, os) ==
    IF os = << >> THEN options
    ELSE ApplyOptions(ApplyOption(options, Head(os)), Tail(os))

\* registries an application may plug in
PluginBrokers    == (HTTP :> "plugin.httpBroker") @@ (KAFKA :> "plugin.kafkaBroker")
PluginRegistries == ETCD :> "plugin.etcdRegistry"
PluginSelectors  == (SELECTOR :> "plugin.cacheSelector") @@ (RANDOM :> "plugin.randomSelector")
PluginTransports == NATS :> "plugin.natsTransport"

\* the option lists main may pass to NewCmd
NewOptChoices ==
    { << >>,
      <<Brokers(PluginBrokers)>>,
      <<Registries(PluginRegistries)>>,
      <<Selectors(PluginSelectors)>>,
      <<Name("svc"), Version("1.0"), Transports(PluginTransports)>>,
      <<Brokers(PluginBrokers), Registries(PluginRegistries),
        Selectors(PluginSelectors), Transports(PluginTransports)>> }

\* the option lists main may pass to Init
InitOptChoices ==
    { << >>,
      <<Selectors(PluginSelectors)>>,
      <<Description("demo"), Brokers(DefaultBrokers)>> }

---------------------------------------------------------------------------
(* Command lines *)

ProgName == [flag |-> "$0", val |-> EMPTY]

Tok(f, v) == [flag |-> f, val |-> v]

HelpTok  == Tok("help", EMPTY)
BogusTok == Tok("bogus", EMPTY)

\* the flags of the lifecycle specification's command lines
LifecycleTokens ==
    { Tok("broker", KAFKA), Tok("registry", ETCD), Tok("selector", RANDOM),
      Tok("transport", NATS), Tok("broker_address", <<"a", ",", "b">>),
      Tok("registry_address", <<"a">>), Tok("server_metadata", <<"k", "=", "v">>),
      Tok("server_name", SVC), Tok("logtostderr", EMPTY), HelpTok, BogusTok }

LifecycleCmdLines == SeqsUpTo(LifecycleTokens, MaxArgs)

AddrAlphabet == {"a", ",", " "}

\* one address flag with any value, or a help request, or an undeclared flag
AddrCmdLines ==
    { <<Tok(f, v)>> : f \in {"broker_address", "registry_address", "transport_address"},
                      v \in Strings(AddrAlphabet, MaxAddrLen) }
    \cup {<<HelpTok>>, <<BogusTok>>}

MetaAlphabet == {"k", "="}

\* up to MaxTokens server_metadata flags, or a help request, or an undeclared flag
MetaCmdLines ==
    { [i \in DOMAIN vs |-> Tok("server_metadata", vs[i])] :
        vs \in SeqsUpTo(Strings(MetaAlphabet, MaxTokLen), MaxTokens) }
    \cup {<<HelpTok>>, <<BogusTok>>}

---------------------------------------------------------------------------
(* The cli shell's flag parsing (cli.App.Run, before the Before hook) *)

\* the flags given on the command line, without the program name
Args(argv) == Tail(argv)

\* flag parsing fails on a flag that is not declared
ParseFails(argv) ==
    \E i \in 1..Len(Args(argv)) : Args(argv)[i].flag \notin DeclaredFlagNames \cup {"help"}

HelpRequested(argv) ==
    \E i \in 1..Len(Args(argv)) : Args(argv)[i].flag = "help"

\* the last value given for flag n, or its declared default
StringValue(argv, n) ==
    LET a == Args(argv)
        at == {i \in 1..Len(a) : a[i].flag = n} IN
    IF at = {} THEN DefaultFlags[n]
    ELSE a[CHOOSE i \in at : \A j \in at : j <= i].val

RECURSIVE SliceValue(_, _)
\* every value given for the repeatable flag n, in command-line order
SliceValue(a, n) ==
    IF a = << >> THEN << >>
    ELSE (IF Head(a).flag = n THEN <<Head(a).val>> ELSE << >>) \o SliceValue(Tail(a), n)

ParseFlags(argv) ==
    [ str  |-> [n \in StringFlagNames |-> StringValue(argv, n)],
      bool |-> [n \in BoolFlagNames |-> \E i \in 1..Len(Args(argv)) : Args(argv)[i].flag = n],
      meta |-> SliceValue(Args(argv), "server_metadata") ]

\* ctx.String(n), ctx.Bool(n), ctx.StringSlice(n)
CtxString(c, n)      == c.str[n]
CtxBool(c, n)        == c.bool[n]
CtxStringSlice(c, n) == c.meta

NoCtx ==
    [ str  |-> [n \in StringFlagNames |-> EMPTY],
      bool |-> [n \in BoolFlagNames |-> FALSE],
      meta |-> << >> ]

---------------------------------------------------------------------------
(* Component instances and the values the default slots hold *)

\* what a default slot of the given kind holds before any bootstrap run
Prior(kind) == [kind |-> kind, impl |-> "prior", addrs |-> << >>]

PriorSelector == [kind |-> "selector", impl |-> "prior", reg |-> Prior("registry")]

PriorServer == [impl |-> "prior"]

PriorClient == [impl |-> "prior"]

\* the instance a broker, registry or transport factory returns for an address list
NewInstance(kind, impl, addrs) == [kind |-> kind, impl |-> impl, addrs |-> addrs]

\* the instance a selector factory returns for selector.Registry(reg)
NewSelectorInstance(impl, reg) == [kind |-> "selector", impl |-> impl, reg |-> reg]

\* the record of one sub-step in the history
Did(name, calls, wrote) == [step |-> name, calls |-> calls, wrote |-> wrote]

---------------------------------------------------------------------------
(* newCmd and Init *)

ZeroOptions ==
    [ Name |-> "", Version |-> "", Description |-> "",
      Brokers |-> NoMap, Registries |-> NoMap, Selectors |-> NoMap, Transports |-> NoMap ]

ZeroApp == [Name |-> "", Version |-> "", Usage |-> "", HideVersion |-> FALSE]

\* the options value newCmd starts from
BaseOptions ==
    [ ZeroOptions EXCEPT !.Brokers = DefaultBrokers, !.Registries = DefaultRegistries,
                         !.Selectors = DefaultSelectors, !.Transports = DefaultTransports ]

\* if len(options.Description) == 0 { options.Description = "a go-micro service" }
WithDescription(options) ==
    IF options.Description = ""
    THEN [options EXCEPT !.Description = "a go-micro service"]
    ELSE options

newCmd ==
    /\ pc = "Unbuilt"
    /\ LET options == WithDescription(ApplyOptions(BaseOptions, newOpts)) IN
         /\ opts' = options
         /\ app' = [ Name |-> options.Name, Version |-> options.Version,
                     Usage |-> options.Description,
                     HideVersion |-> (options.Version = "") ]
    /\ pc' = "Built"
    /\ UNCHANGED <<step, cmdline, newOpts, initOpts, osArgs, ctx, glogFlags, slots,
                   metadata, hookErr, exitStatus, trace>>

\* (c *cmd) Init, up to its call of c.app.RunAndExitOnError()
CmdInit ==
    /\ pc = "Built"
    /\ LET options == ApplyOptions(opts, initOpts) IN
         /\ opts' = options
         /\ app' = [ app EXCEPT !.Name = options.Name, !.Version = options.Version,
                                !.Usage = options.Description ]
    /\ pc' = "BootstrapPending"
    /\ UNCHANGED <<step, cmdline, newOpts, initOpts, osArgs, ctx, glogFlags, slots,
                   metadata, hookErr, exitStatus, trace>>

---------------------------------------------------------------------------
(* The shell's run routine, up to the Before hook *)

\* flag parsing fails: RunAndExitOnError prints the error and exits with status 1
RunParseFail ==
    /\ pc = "BootstrapPending"
    /\ ParseFails(osArgs)
    /\ pc' = "Exited"
    /\ exitStatus' = 1
    /\ UNCHANGED <<step, cmdline, newOpts, initOpts, osArgs, opts, app, ctx, glogFlags,
                   slots, metadata, hookErr, trace>>

\* help is requested: the replaced cli.HelpPrinter prints it and calls os.Exit(0)
RunHelp ==
    /\ pc = "BootstrapPending"
    /\ ~ParseFails(osArgs)
    /\ HelpRequested(osArgs)
    /\ pc' = "Exited"
    /\ exitStatus' = 0
    /\ UNCHANGED <<step, cmdline, newOpts, initOpts, osArgs, opts, app, ctx, glogFlags,
                   slots, metadata, hookErr, trace>>

\* the flags parse and no help is requested: the shell calls the Before hook
RunBefore ==
    /\ pc = "BootstrapPending"
    /\ ~ParseFails(osArgs)
    /\ ~HelpRequested(osArgs)
    /\ ctx' = ParseFlags(osArgs)
    /\ pc' = "Before"
    /\ step' = 1
    /\ UNCHANGED <<cmdline, newOpts, initOpts, osArgs, opts, app, glogFlags, slots,
                   metadata, hookErr, exitStatus, trace>>

---------------------------------------------------------------------------
(* (c *cmd) Before: the bootstrap step *)

\* a slip: the selector resolved before the registry
BeforeOrder_SelectorFirst ==
    <<"logging", "broker", "selector", "registry", "transport", "metadata",
      "server", "client", "return">>

\* a slip: the client constructed before the server
BeforeOrder_ClientFirst ==
    <<"logging", "broker", "registry", "selector", "transport", "metadata",
      "client", "server", "return">>

\* the sub-steps of Before, in program order
BeforeOrder ==
    <<"logging", "broker", "registry", "selector", "transport", "metadata",
      "server", "client", "return">>

AtStep(name) == pc = "Before" /\ step \in DOMAIN BeforeOrder /\ BeforeOrder[step] = name

\* a slip: the argument list left as it is
Truncate_None(args) == args

\* os.Args[:1]
Truncate(args) == SubSeq(args, 1, 1)

\* the values the flag.Set calls store: the logging flags' parsed values
SetGlogFlags(c) ==
    [n \in GlogFlagNames |->
        IF n \in BoolFlagNames THEN FormatBool(CtxBool(c, n)) ELSE CtxString(c, n)]

\* flag.Parse() reads os.Args[1:] and, the standard flag set being ExitOnError,
\* ends the process with status 2 on a flag it does not define
GlogParseFails(args) ==
    \E i \in 1..Len(Tail(args)) : Tail(args)[i].flag \notin GlogFlagNames

\* the ok of: f, ok := m[k]
Registered(m, k) == k \in DOMAIN m

\* a slip: the factory of some key of the map rather than of the requested one
Lookup_Other(m, k) ==
    IF \E x \in DOMAIN m : x # k THEN m[CHOOSE x \in DOMAIN m : x # k] ELSE m[k]

\* the f of: f, ok := m[k]
Lookup(m, k) == m[k]

\* strings.Split(ctx.String(flag), ",")
AddressList(c, flag) == Split(CtxString(c, flag), ",")

\* selector.Registry(registry.DefaultRegistry): the registry the selector factory gets
SelectorArg(reg) == reg

\* what the assignment to a default slot leaves in it
Publish(old, new) == new

BeforeLogging ==
    /\ AtStep("logging")
    /\ osArgs' = Truncate(osArgs)
    /\ glogFlags' = SetGlogFlags(ctx)
    /\ IF GlogParseFails(osArgs')
       THEN pc' = "Exited" /\ exitStatus' = 2 /\ UNCHANGED step
       ELSE step' = step + 1 /\ UNCHANGED <<pc, exitStatus>>
    /\ trace' = Append(trace, Did("logging", << >>, {}))
    /\ UNCHANGED <<cmdline, newOpts, initOpts, opts, app, ctx, slots, metadata, hookErr>>

\* a slip: an unregistered broker kind falls back to the built-in factory
ResolveBroker_Fallback ==
    /\ AtStep("broker")
    /\ LET k     == CtxString(ctx, "broker")
           b     == IF Registered(opts.Brokers, k) THEN opts.Brokers[k] ELSE "broker.NewBroker"
           addrs == AddressList(ctx, "broker_address")
           inst  == NewInstance("broker", b, addrs) IN
         /\ DefaultBroker' = inst
         /\ trace' = Append(trace, Did("broker",
                <<[kind |-> "broker", impl |-> b, arg |-> addrs, ret |-> inst]>>,
                {"broker"}))
    /\ step' = step + 1
    /\ UNCHANGED <<pc, cmdline, newOpts, initOpts, osArgs, opts, app, ctx, glogFlags,
                   DefaultRegistry, DefaultSelector, DefaultTransport, DefaultServer,
                   DefaultClient, metadata, hookErr, exitStatus>>

ResolveBroker ==
    /\ AtStep("broker")
    /\ LET k == CtxString(ctx, "broker") IN
       IF Registered(opts.Brokers, k)
       THEN LET b     == Lookup(opts.Brokers, k)
                addrs == AddressList(ctx, "broker_address")
                inst  == NewInstance("broker", b, addrs) IN
              /\ DefaultBroker' = Publish(DefaultBroker, inst)
              /\ trace' = Append(trace, Did("broker",
                     <<[kind |-> "broker", impl |-> b, arg |-> addrs, ret |-> inst]>>,
                     {"broker"}))
       ELSE /\ UNCHANGED DefaultBroker
            /\ trace' = Append(trace, Did("broker", << >>, {}))
    /\ step' = step + 1
    /\ UNCHANGED <<pc, cmdline, newOpts, initOpts, osArgs, opts, app, ctx, glogFlags,
                   DefaultRegistry, DefaultSelector, DefaultTransport, DefaultServer,
                   DefaultClient, metadata, hookErr, exitStatus>>

ResolveRegistry ==
    /\ AtStep("registry")
    /\ LET k == CtxString(ctx, "registry") IN
       IF Registered(opts.Registries, k)
       THEN LET r     == Lookup(opts.Registries, k)
                addrs == AddressList(ctx, "registry_address")
                inst  == NewInstance("registry", r, addrs) IN
              /\ DefaultRegistry' = Publish(DefaultRegistry, inst)
              /\ trace' = Append(trace, Did("registry",
                     <<[kind |-> "registry", impl |-> r, arg |-> addrs, ret |-> inst]>>,
                     {"registry"}))
       ELSE /\ UNCHANGED DefaultRegistry
            /\ trace' = Append(trace, Did("registry", << >>, {}))
    /\ step' = step + 1
    /\ UNCHANGED <<pc, cmdline, newOpts, initOpts, osArgs, opts, app, ctx, glogFlags,
                   DefaultBroker, DefaultSelector, DefaultTransport, DefaultServer,
                   DefaultClient, metadata, hookErr, exitStatus>>

ResolveSelector ==
    /\ AtStep("selector")
    /\ LET k == CtxString(ctx, "selector") IN
       IF Registered(opts.Selectors, k)
       THEN LET sf   == Lookup(opts.Selectors, k)
                reg  == SelectorArg(DefaultRegistry)
                inst == NewSelectorInstance(sf, reg) IN
              /\ DefaultSelector' = Publish(DefaultSelector, inst)
              /\ trace' = Append(trace, Did("selector",
                     <<[kind |-> "selector", impl |-> sf, arg |-> reg, ret |-> inst]>>,
                     {"selector"}))
       ELSE /\ UNCHANGED DefaultSelector
            /\ trace' = Append(trace, Did("selector", << >>, {}))
    /\ step' = step + 1
    /\ UNCHANGED <<pc, cmdline, newOpts, initOpts, osArgs, opts, app, ctx, glogFlags,
                   DefaultBroker, DefaultRegistry, DefaultTransport, DefaultServer,
                   DefaultClient, metadata, hookErr, exitStatus>>

ResolveTransport ==
    /\ AtStep("transport")
    /\ LET k == CtxString(ctx, "transport") IN
       IF Registered(opts.Transports, k)
       THEN LET t     == Lookup(opts.Transports, k)
                addrs == AddressList(ctx, "transport_address")
                inst  == NewInstance("transport", t, addrs) IN
              /\ DefaultTransport' = Publish(DefaultTransport, inst)
              /\ trace' = Append(trace, Did("transport",
                     <<[kind |-> "transport", impl |-> t, arg |-> addrs, ret |-> inst]>>,
                     {"transport"}))
       ELSE /\ UNCHANGED DefaultTransport
            /\ trace' = Append(trace, Did("transport", << >>, {}))
    /\ step' = step + 1
    /\ UNCHANGED <<pc, cmdline, newOpts, initOpts, osArgs, opts, app, ctx, glogFlags,
                   DefaultBroker, DefaultRegistry, DefaultSelector, DefaultServer,
                   DefaultClient, metadata, hookErr, exitStatus>>

\* key = parts[0]
MetadataKey(parts) == parts[1]

\* a slip: the value taken as parts[1] alone
MetadataValue_Second(parts) == IF Len(parts) > 1 THEN parts[2] ELSE EMPTY

\* if len(parts) > 1 { val = strings.Join(parts[1:], "=") }
MetadataValue(parts) ==
    IF Len(parts) > 1 THEN Join(SubSeq(parts, 2, Len(parts)), "=") ELSE EMPTY

\* m[k] = v
MapPut(m, k, v) == [x \in (DOMAIN m) \cup {k} |-> IF x = k THEN v ELSE m[x]]

\* the loop over ctx.StringSlice("server_metadata"), from the map m on
RECURSIVE BuildMetadata(_, _)
BuildMetadata(m, toks) ==
    IF toks = << >> THEN m
    ELSE LET parts == Split(Head(toks), "=") IN
         BuildMetadata(MapPut(m, MetadataKey(parts), MetadataValue(parts)), Tail(toks))

AssembleMetadata ==
    /\ AtStep("metadata")
    /\ metadata' = BuildMetadata(NoMap, CtxStringSlice(ctx, "server_metadata"))
    /\ trace' = Append(trace, Did("metadata", << >>, {}))
    /\ step' = step + 1
    /\ UNCHANGED <<pc, cmdline, newOpts, initOpts, osArgs, opts, app, ctx, glogFlags,
                   slots, hookErr, exitStatus>>

\* a slip: the advertise address taken from server_address
NewServer_AdvertiseSlip(c, md) ==
    [ impl      |-> "server.NewServer",
      name      |-> CtxString(c, "server_name"),
      version   |-> CtxString(c, "server_version"),
      id        |-> CtxString(c, "server_id"),
      address   |-> CtxString(c, "server_address"),
      advertise |-> CtxString(c, "server_address"),
      metadata  |-> md ]

\* server.NewServer(server.Name(...), ..., server.Metadata(metadata))
NewServer(c, md) ==
    [ impl      |-> "server.NewServer",
      name      |-> CtxString(c, "server_name"),
      version   |-> CtxString(c, "server_version"),
      id        |-> CtxString(c, "server_id"),
      address   |-> CtxString(c, "server_address"),
      advertise |-> CtxString(c, "server_advertise"),
      metadata  |-> md ]

\* client.NewClient()
NewClient == [impl |-> "client.NewClient", options |-> << >>]

ConstructServer ==
    /\ AtStep("server")
    /\ DefaultServer' = Publish(DefaultServer, NewServer(ctx, metadata))
    /\ trace' = Append(trace, Did("server", << >>, {"server"}))
    /\ step' = step + 1
    /\ UNCHANGED <<pc, cmdline, newOpts, initOpts, osArgs, opts, app, ctx, glogFlags,
                   DefaultBroker, DefaultRegistry, DefaultSelector, DefaultTransport,
                   DefaultClient, metadata, hookErr, exitStatus>>

ConstructClient ==
    /\ AtStep("client")
    /\ DefaultClient' = Publish(DefaultClient, NewClient)
    /\ trace' = Append(trace, Did("client", << >>, {"client"}))
    /\ step' = step + 1
    /\ UNCHANGED <<pc, cmdline, newOpts, initOpts, osArgs, opts, app, ctx, glogFlags,
                   DefaultBroker, DefaultRegistry, DefaultSelector, DefaultTransport,
                   DefaultServer, metadata, hookErr, exitStatus>>

\* a change of policy: an unregistered kind reported through the return channel
BeforeResult_Strict(c, o) ==
    IF /\ c.str["broker"] \in DOMAIN o.Brokers
       /\ c.str["registry"] \in DOMAIN o.Registries
       /\ c.str["selector"] \in DOMAIN o.Selectors
       /\ c.str["transport"] \in DOMAIN o.Transports
    THEN "nil"
    ELSE "unknown kind"

\* the error Before returns: return nil
BeforeResult(c, o) == "nil"

BeforeReturn ==
    /\ AtStep("return")
    /\ hookErr' = BeforeResult(ctx, opts)
    /\ pc' = "HookReturned"
    /\ trace' = Append(trace, Did("return", << >>, {}))
    /\ UNCHANGED <<step, cmdline, newOpts, initOpts, osArgs, opts, app, ctx, glogFlags,
                   slots, metadata, exitStatus>>

---------------------------------------------------------------------------
(* The shell's run routine, after the Before hook *)

\* a slip: the default action constructs the client again
DefaultAction_NewClient(client) == [client |-> NewClient, wrote |-> {"client"}]

\* cmd.app.Action = func(c *cli.Context) {}: what the action leaves in the default
\* client slot, and the slots it assigns (none)
DefaultAction(client) == [client |-> client, wrote |-> {}]

\* a failed hook ends the process with status 1 (RunAndExitOnError); otherwise the
\* shell invokes the action, Run returns nil and Init returns to its caller
AppAction ==
    /\ pc = "HookReturned"
    /\ IF hookErr = "nil"
       THEN /\ pc' = "Running"
            /\ DefaultClient' = DefaultAction(DefaultClient).client
            /\ trace' = Append(trace, Did("action", << >>, DefaultAction(DefaultClient).wrote))
            /\ UNCHANGED exitStatus
       ELSE /\ pc' = "Exited"
            /\ exitStatus' = 1
            /\ UNCHANGED <<DefaultClient, trace>>
    /\ UNCHANGED <<step, cmdline, newOpts, initOpts, osArgs, opts, app, ctx, glogFlags,
                   DefaultBroker, DefaultRegistry, DefaultSelector, DefaultTransport,
                   DefaultServer, metadata, hookErr>>

---------------------------------------------------------------------------
(* Specifications *)

InitWith(cmdlines, newChoices, initChoices) ==
    /\ pc = "Unbuilt"
    /\ step = 0
    /\ cmdline \in {<<ProgName>> \o c : c \in cmdlines}
    /\ osArgs = cmdline
    /\ newOpts \in newChoices
    /\ initOpts \in initChoices
    /\ opts = ZeroOptions
    /\ app = ZeroApp
    /\ ctx = NoCtx
    /\ glogFlags = [n \in GlogFlagNames |-> IF n \in BoolFlagNames THEN STRFALSE ELSE EMPTY]
    /\ DefaultBroker = Prior("broker")
    /\ DefaultRegistry = Prior("registry")
    /\ DefaultSelector = PriorSelector
    /\ DefaultTransport = Prior("transport")
    /\ DefaultServer = PriorServer
    /\ DefaultClient = PriorClient
    /\ metadata = NoMap
    /\ hookErr = "unset"
    /\ exitStatus = -1
    /\ trace = << >>

Init == InitWith(LifecycleCmdLines, NewOptChoices, InitOptChoices)

InitAddr == InitWith(AddrCmdLines, {<< >>}, {<< >>})

InitMeta == InitWith(MetaCmdLines, {<< >>}, {<< >>})

Next ==
    \/ newCmd
    \/ CmdInit
    \/ RunParseFail
    \/ RunHelp
    \/ RunBefore
    \/ BeforeLogging
    \/ ResolveBroker
    \/ ResolveRegistry
    \/ ResolveSelector
    \/ ResolveTransport
    \/ AssembleMetadata
    \/ ConstructServer
    \/ ConstructClient
    \/ BeforeReturn
    \/ AppAction

\* the Command lifecycle over command lines of up to MaxArgs flags and plugged-in registries
Spec == Init /\ [][Next]_vars

\* the same program over every value of one address flag
SpecAddr == InitAddr /\ [][Next]_vars

\* the same program over every list of server_metadata tokens
SpecMeta == InitMeta /\ [][Next]_vars

---------------------------------------------------------------------------
(* Reading the history *)

Kinds == {"broker", "registry", "selector", "transport"}

AddressKinds == {"broker", "registry", "transport"}

SlotNames == Kinds \cup {"server", "client"}

\* the factory registry of a kind in the Option Set
RegistryOf(kind) ==
    CASE kind = "broker"    -> opts.Brokers
      [] kind = "registry"  -> opts.Registries
      [] kind = "selector"  -> opts.Selectors
      [] kind = "transport" -> opts.Transports

\* the process-wide default slot of a kind
SlotOf(kind) ==
    CASE kind = "broker"    -> DefaultBroker
      [] kind = "registry"  -> DefaultRegistry
      [] kind = "selector"  -> DefaultSelector
      [] kind = "transport" -> DefaultTransport

PriorOf(kind) == IF kind = "selector" THEN PriorSelector ELSE Prior(kind)

AddressFlag(kind) ==
    CASE kind = "broker"    -> "broker_address"
      [] kind = "registry"  -> "registry_address"
      [] kind = "transport" -> "transport_address"

\* the kind identifier the parsed flags request
Requested(kind) == ctx.str[kind]

KindRegistered(kind) == Requested(kind) \in DOMAIN RegistryOf(kind)

\* the names of the sub-steps carried out so far, in order
Steps == [i \in DOMAIN trace |-> trace[i].step]

Done(name) == \E i \in DOMAIN trace : trace[i].step = name

\* the places <<i, j>> of the history where a factory of the kind was invoked
CallSites(kind) ==
    UNION { { <<i, j>> : j \in {n \in DOMAIN trace[i].calls : trace[i].calls[n].kind = kind} }
            : i \in DOMAIN trace }

CallAt(site) == trace[site[1]].calls[site[2]]

WriteCount(slot) == Cardinality({i \in DOMAIN trace : slot \in trace[i].wrote})

FlagGiven(name) == \E i \in 2..Len(cmdline) : cmdline[i].flag = name

\* position of the first flag named name on the command line (0 when absent)
FlagPos(name) ==
    IF FlagGiven(name)
    THEN CHOOSE i \in 2..Len(cmdline) :
            cmdline[i].flag = name /\ \A j \in 2..(i - 1) : cmdline[j].flag # name
    ELSE 0

\* list is exactly what cutting s at every c gives: as many elements as c occurs in s
\* plus one, none of them holding a c, and s again when joined with c
IsSplitOf(list, s, c) ==
    /\ Len(list) = Count(s, c) + 1
    /\ \A i \in 1..Len(list) : Index(list[i], c) = 0
    /\ Join(list, c) = s

\* the order of sub-steps section 4.4 prescribes, followed by the action
PrescribedOrder ==
    <<"logging", "broker", "registry", "selector", "transport", "metadata",
      "server", "client", "return", "action">>

HookReturned == pc \in {"HookReturned", "Running"}

---------------------------------------------------------------------------
(* C1 *)

---------------------------------------------------------------------------
(* C2 *)

\* C2: the sub-steps of a bootstrap run happen in exactly the prescribed order:
\* argument truncation with logging pass-through, broker, registry, selector,
\* transport, metadata, server, client, and only then the return of the hook; after
\* the first sub-step the process argument list is the program name alone and the
\* logging flag store holds the parsed logging flags.
C2_PrescribedOrder ==
    /\ Len(trace) <= Len(PrescribedOrder)
    /\ \A i \in DOMAIN trace : trace[i].step = PrescribedOrder[i]
    /\ HookReturned => Done("client") /\ Done("return")
    /\ pc = "Before" => Len(trace) = step - 1
    /\ Done("logging") =>
          /\ osArgs = <<cmdline[1]>>
          /\ \A n \in GlogFlagNames :
                glogFlags[n] = IF n \in BoolFlagNames
                               THEN (IF FlagGiven(n) THEN STRTRUE ELSE STRFALSE)
                               ELSE ctx.str[n]

\* a run with flags on its command line went through every sub-step and the action
C2_Witness ==
    /\ pc = "Running"
    /\ Len(cmdline) >= 3
    /\ FlagGiven("logtostderr")
    /\ Steps = PrescribedOrder

---------------------------------------------------------------------------
(* C3 *)

\* C3: for each kind whose requested identifier is a key of its registry, once the
\* kind's sub-step is done exactly one factory of that kind has been invoked, it is
\* the one stored under the requested key, its argument is the address list cut from
\* the kind's address flag (the default registry, for selector), and the kind's
\* default slot holds what that call returned in place of its earlier value.
C3_RegisteredKindResolved ==
    \A kind \in Kinds :
        (Done(kind) /\ KindRegistered(kind)) =>
            /\ Cardinality(CallSites(kind)) = 1
            /\ \A s \in CallSites(kind) :
                  /\ trace[s[1]].step = kind
                  /\ CallAt(s).impl = RegistryOf(kind)[Requested(kind)]
                  /\ CallAt(s).ret.impl = RegistryOf(kind)[Requested(kind)]
                  /\ IF kind = "selector"
                     THEN CallAt(s).arg = DefaultRegistry
                     ELSE IsSplitOf(CallAt(s).arg, ctx.str[AddressFlag(kind)], ",")
                  /\ SlotOf(kind) = CallAt(s).ret
                  /\ SlotOf(kind) # PriorOf(kind)

\* the run requested "kafka" of a broker registry that also holds "http"
C3_Witness ==
    /\ pc = "Running"
    /\ Requested("broker") = KAFKA
    /\ DOMAIN opts.Brokers = {HTTP, KAFKA}
    /\ DefaultBroker.impl = "plugin.kafkaBroker"
    /\ Len(DefaultBroker.addrs) = 2

---------------------------------------------------------------------------
(* C4 *)

\* C4: for each kind whose requested identifier is not a key of its registry, no
\* factory of that kind is invoked and the kind's default slot keeps its earlier
\* value; the run is not aborted: the process never exits once Before has begun,
\* every later sub-step can be taken, and the hook returns nil.
C4_UnknownKindIsNoOp ==
    /\ \A kind \in Kinds :
          (Done(kind) /\ ~KindRegistered(kind)) =>
              /\ CallSites(kind) = {}
              /\ WriteCount(kind) = 0
              /\ SlotOf(kind) = PriorOf(kind)
    /\ trace # << >> => pc # "Exited"
    /\ pc \in {"Before", "HookReturned"} => ENABLED Next
    /\ HookReturned => hookErr = "nil" /\ \A n \in 1..(Len(PrescribedOrder) - 1) : Done(PrescribedOrder[n])

\* a run that requested an unregistered broker went on to the action
C4_Witness ==
    /\ pc = "Running"
    /\ Requested("broker") = KAFKA
    /\ KAFKA \notin DOMAIN opts.Brokers
    /\ DefaultBroker = Prior("broker")
    /\ DefaultServer # PriorServer

---------------------------------------------------------------------------
(* C5 *)

\* C5: on every run that reaches the hook, whichever of the four kinds resolved,
\* the hook returns with the default server slot holding a new server built from
\* the server_name, server_version, server_id, server_address and server_advertise
\* flag values and the assembled metadata map, and with the default client slot
\* holding a new client built with no configuration; each was constructed once.
C5_ServerAndClientAlways ==
    /\ trace # << >> => pc # "Exited"
    /\ pc \in {"Before", "HookReturned"} => ENABLED Next
    /\ HookReturned =>
          /\ DefaultServer = [ impl      |-> "server.NewServer",
                               name      |-> ctx.str["server_name"],
                               version   |-> ctx.str["server_version"],
                               id        |-> ctx.str["server_id"],
                               address   |-> ctx.str["server_address"],
                               advertise |-> ctx.str["server_advertise"],
                               metadata  |-> metadata ]
          /\ DefaultClient = [impl |-> "client.NewClient", options |-> << >>]
          /\ WriteCount("server") = 1
          /\ WriteCount("client") = 1

\* a run in which none of the four kinds resolved still published server and client
C5_Witness ==
    /\ pc = "Running"
    /\ \A kind \in Kinds : ~KindRegistered(kind) /\ SlotOf(kind) = PriorOf(kind)
    /\ DefaultServer.impl = "server.NewServer"
    /\ DefaultClient.impl = "client.NewClient"

---------------------------------------------------------------------------
(* C6 *)

\* C6: when the Command is built with no option functions and a kind flag is left
\* off the command line, the flag's default is a key of the kind's built-in
\* registry, so the kind's sub-step resolves it and publishes a default.
C6_DefaultsResolve ==
    \A kind \in Kinds :
        (newOpts = << >> /\ initOpts = << >> /\ ~FlagGiven(kind) /\ Done(kind)) =>
            /\ DefaultFlags[kind] \in DOMAIN RegistryOf(kind)
            /\ Cardinality(CallSites(kind)) = 1
            /\ SlotOf(kind) # PriorOf(kind)

---------------------------------------------------------------------------
(* C7 *)

\* the part of a token before its first "=" (the whole token when it has none)
KeyOf(tok) == IF Index(tok, "=") = 0 THEN tok ELSE SubSeq(tok, 1, Index(tok, "=") - 1)

\* the part of a token after its first "=" (empty when it has none)
ValOf(tok) == IF Index(tok, "=") = 0 THEN EMPTY ELSE SubSeq(tok, Index(tok, "=") + 1, Len(tok))

\* the server_metadata values in command-line order
MetaTokens == [i \in 1..Len(ctx.meta) |-> ctx.meta[i]]

\* C7: the metadata map has exactly the keys KeyOf(token) of the server_metadata
\* tokens; each key maps to ValOf of the last token with that key, which is
\* everything after the token's first "=", further "=" included, or the empty string
\* for a token without "="; and that map is the one the server is constructed with.
C7_MetadataMap ==
    Done("metadata") =>
        /\ DOMAIN metadata = {KeyOf(MetaTokens[i]) : i \in DOMAIN MetaTokens}
        /\ \A i \in DOMAIN MetaTokens :
              (\A j \in DOMAIN MetaTokens : j > i => KeyOf(MetaTokens[j]) # KeyOf(MetaTokens[i]))
                 => metadata[KeyOf(MetaTokens[i])] = ValOf(MetaTokens[i])
        /\ Len(MetaTokens) = Len(cmdline) - 1
        /\ \A i \in DOMAIN MetaTokens : MetaTokens[i] = cmdline[i + 1].val
        /\ Done("server") => DefaultServer.metadata = metadata

\* two tokens with the same key, the later one with "=" inside its value
C7_Witness ==
    /\ pc = "Running"
    /\ Len(MetaTokens) = 2
    /\ KeyOf(MetaTokens[1]) = KeyOf(MetaTokens[2])
    /\ ValOf(MetaTokens[1]) # ValOf(MetaTokens[2])
    /\ Index(ValOf(MetaTokens[2]), "=") # 0
    /\ DefaultServer.metadata[KeyOf(MetaTokens[2])] = ValOf(MetaTokens[2])

---------------------------------------------------------------------------
(* C8 *)

\* C8: whatever the value of broker_address, registry_address or transport_address
\* (empty, or with leading, trailing or consecutive commas), the address list the
\* kind's factory is invoked with has one element more than the value has commas,
\* its elements hold no comma and are not trimmed, and joined with "," they give
\* the flag value back.
C8_AddressList ==
    \A kind \in AddressKinds :
        Done(kind) =>
            /\ Cardinality(CallSites(kind)) = 1
            /\ \A s \in CallSites(kind) :
                  LET list  == CallAt(s).arg
                      value == StringValue(cmdline, AddressFlag(kind)) IN
                  /\ Len(list) = Count(value, ",") + 1
                  /\ \A i \in 1..Len(list) : Index(list[i], ",") = 0
                  /\ Join(list, ",") = value
                  /\ SlotOf(kind).addrs = list

\* a value with a blank, then two commas: three elements, the last two empty
C8_Witness ==
    /\ pc = "Running"
    /\ FlagGiven("registry_address")
    /\ DefaultRegistry.addrs = << <<" ">>, EMPTY, EMPTY >>

---------------------------------------------------------------------------
(* C9 *)

BootstrapSteps == {"broker", "registry", "selector", "transport", "server", "client"}

\* C9, as stated: by the time the action runs every default slot has been written
\* exactly once.  (Stated for the runs whose selector kind is registered, so that a
\* violation does not rest on the selector flag's default, see C6.)
C9_EverySlotWrittenOnce ==
    (pc = "Running" /\ KindRegistered("selector")) =>
        \A slot \in SlotNames : WriteCount(slot) = 1

\* C9, amended: every default slot is written at most once per process, only by
\* its own sub-step of Before and never once the action has been invoked; a slot
\* that was not written holds its earlier value; when the action runs, the server
\* and client slots have been written exactly once and the slot of each of the four
\* kinds exactly once if its requested identifier is registered and not at all
\* otherwise.
C9_WritesOnlyDuringBootstrap ==
    /\ \A slot \in SlotNames : WriteCount(slot) <= 1
    /\ \A i \in DOMAIN trace :
          /\ trace[i].wrote \subseteq {trace[i].step} \cap BootstrapSteps
          /\ trace[i].wrote # {} => \A j \in 1..i : trace[j].step # "action"
    /\ pc \in {"Unbuilt", "Built", "BootstrapPending", "Exited"} => trace = << >>
    /\ \A kind \in Kinds : WriteCount(kind) = 0 => SlotOf(kind) = PriorOf(kind)
    /\ WriteCount("server") = 0 => DefaultServer = PriorServer
    /\ WriteCount("client") = 0 => DefaultClient = PriorClient
    /\ pc = "Running" =>
          /\ WriteCount("server") = 1
          /\ WriteCount("client") = 1
          /\ \A kind \in Kinds :
                WriteCount(kind) = IF KindRegistered(kind) THEN 1 ELSE 0

\* the action runs after some kind slots were written and one was not
C9_Witness ==
    /\ pc = "Running"
    /\ trace[Len(trace)].step = "action"
    /\ WriteCount("broker") = 0
    /\ KindRegistered("selector")
    /\ \A slot \in SlotNames \ {"broker"} : WriteCount(slot) = 1

---------------------------------------------------------------------------
(* C10 *)

=============================================================================
